---- MODULE Spec2Model ----
(***************************************************************************)
(* EasyPitch: the note sequencer (RawInstrument.playNotes / playNote /     *)
(* _playFreq) and the pitch table (noteFreqs / Note.getFreq) of the        *)
(* Note|Rest variant of the library.                                       *)
(*                                                                         *)
(* Numbers.  A JavaScript number is modelled as a record                   *)
(*   [nan |-> BOOLEAN, num |-> Int, den |-> Int]   (den > 0 when ~nan)     *)
(* an exact rational, or NaN.  Note lengths are the rationals the callers  *)
(* write (1/4, 1/2, ...); frequencies are the table's two-decimal values   *)
(* scaled by a power of two.                                               *)
(***************************************************************************)
EXTENDS Integers, Sequences, FiniteSets, TLC

\* ------------------------------------------------------------------ bounds
MaxLen == 3
MinOctave == 0
MaxOctave == 9

\* ----------------------------------------------------------------- numbers
Abs(n) == IF n < 0 THEN -n ELSE n

\* truncating integer quotient, any signs (b # 0)
Quot(a, b) ==
  LET q == Abs(a) \div Abs(b)
  IN IF (a < 0) = (b < 0) THEN q ELSE -q

RECURSIVE Gcd(_, _)
Gcd(a, b) == IF b = 0 THEN a ELSE Gcd(b, a % b)

\* the number n/d (d > 0), in lowest terms: equal numbers are equal records
Rat(n, d) ==
  LET g == Gcd(Abs(n), d)
  IN [nan |-> FALSE, num |-> Quot(n, g), den |-> d \div g]
NaN == [nan |-> TRUE, num |-> 0, den |-> 1]

\* x * y in JavaScript: NaN is absorbing
Mul(x, y) ==
  IF x.nan \/ y.nan THEN NaN ELSE Rat(x.num * y.num, x.den * y.den)

\* x + y, x - y, x / y (y # 0), x < y, x <= y on numbers that are not NaN
Add(x, y) == Rat(x.num * y.den + y.num * x.den, x.den * y.den)
Sub(x, y) == Rat(x.num * y.den - y.num * x.den, x.den * y.den)
Div(x, y) ==
  IF y.num > 0 THEN Rat(x.num * y.den, x.den * y.num)
  ELSE Rat(-(x.num * y.den), x.den * (-y.num))
Less(x, y) == x.num * y.den < y.num * x.den
Leq(x, y) == x.num * y.den <= y.num * x.den

Zero == Rat(0, 1)
One == Rat(1, 1)

\* x === y in JavaScript: NaN equals nothing, rationals by value
NumEq(x, y) == ~x.nan /\ ~y.nan /\ x = y

IsPositive(x) == ~x.nan /\ x.num > 0

RECURSIVE Pow2(_)
Pow2(k) == IF k <= 0 THEN 1 ELSE 2 * Pow2(k - 1)

\* ------------------------------------------------------------- pitch table
\* the table with two digits of the Db entry transposed
noteFreqs_Typo ==
  ( "C"  :> 418601 @@ "C#" :> 443492 @@ "Db" :> 443429 @@ "D"  :> 469863 @@
    "D#" :> 497803 @@ "Eb" :> 497803 @@ "E"  :> 527404 @@ "F"  :> 558765 @@
    "F#" :> 591991 @@ "Gb" :> 591991 @@ "G"  :> 627193 @@ "G#" :> 664488 @@
    "Ab" :> 664488 @@ "A"  :> 704000 @@ "A#" :> 745862 @@ "Bb" :> 745862 @@
    "B"  :> 790213 )

\* noteFreqs: the octave-8 frequencies, in hundredths of a hertz
noteFreqs ==
  ( "C"  :> 418601 @@ "C#" :> 443492 @@ "Db" :> 443492 @@ "D"  :> 469863 @@
    "D#" :> 497803 @@ "Eb" :> 497803 @@ "E"  :> 527404 @@ "F"  :> 558765 @@
    "F#" :> 591991 @@ "Gb" :> 591991 @@ "G"  :> 627193 @@ "G#" :> 664488 @@
    "Ab" :> 664488 @@ "A"  :> 704000 @@ "A#" :> 745862 @@ "Bb" :> 745862 @@
    "B"  :> 790213 )

\* noteFreqs[name]: undefined (NaN under arithmetic) for an absent key
TableLookup(name) ==
  IF name \in DOMAIN noteFreqs THEN Rat(noteFreqs[name], 100) ELSE NaN

\* the arguments of Math.pow exchanged: Math.pow(octave - 8, 2)
OctaveScale_SwappedArgs(octave) == Rat((octave - 8) * (octave - 8), 1)

\* Math.pow(2, octave - 8)
OctaveScale(octave) ==
  IF octave >= 8 THEN Rat(Pow2(octave - 8), 1) ELSE Rat(1, Pow2(8 - octave))

\* Note.getFreq(): always returns a number, never throws
getFreq(note) ==
  [outcome |-> "value", val |-> Mul(OctaveScale(note.octave), TableLookup(note.name))]

\* ----------------------------------------------------------------- entries
Note(name, octave, num, den) ==
  [kind |-> "Note", name |-> name, octave |-> octave, length |-> Rat(num, den)]
Rest(num, den) ==
  [kind |-> "Rest", name |-> "", octave |-> 0, length |-> Rat(num, den)]
\* a list element that is neither a Note nor a Rest
Other == [kind |-> "Other", name |-> "", octave |-> 0, length |-> NaN]

\* the entries the sequencer is run on
Entries ==
  { Note("A", 4, 1, 4), Note("A", 4, 1, 2), Note("H", 4, 1, 4),
    Note("A", 4, 0, 1), Note("A", 4, -1, 4),
    Rest(1, 4), Rest(1, 2), Other }

BPMs == {120, 200, -120}

BPMs2 == {120, 200}

NoteLists == UNION { [1..n -> Entries] : n \in 0..MaxLen }

\* the notes the pitch table is queried with
PitchNames == DOMAIN noteFreqs \cup {"H"}
PitchNotes ==
  { Note(n, o, 1, 4) : n \in PitchNames, o \in MinOctave..MaxOctave }

NoResult == [outcome |-> "none", val |-> NaN]

VARIABLES
  notes,          \* the caller's list, captured by the nextNote closure
  bpm,            \* the bpm argument of playNotes
  waveformFunc,   \* the instrument's waveformFunc: "pure" or "throws"
  i,              \* the closure's index
  pc,             \* "idle", "waiting" (a timer is armed), "done", "aborted"
  timers,         \* the host's pending timers
  clock,          \* host time, ms since playNotes was called
  fired,          \* log of the timers fired: the index of the entry each was armed for
  playFreqCalls,  \* log of the calls of _playFreq
  armed,          \* log of the delays handed to setTimeout
  callbackTimes,  \* clock at each invocation of the completion callback
  thrown,         \* the error that escaped nextNote, or "none"
  starts,         \* log of the calls of playNote: entry index, clock, entry
  edits,          \* log of the changes the caller makes to the list during a run
  run2,           \* a second playNotes run on the same host (a record)
  noteA, noteB,   \* pitch table: the two notes queried
  freqA, freqB,   \* pitch table: the results of getFreq
  envIn, envOut,  \* envelope: the arguments of attackAndDecay, its results
  waveIn, waveOut \* Instrument: its construction and sample arguments, the sample

seqVars == << notes, bpm, waveformFunc, i, pc, timers, clock, fired,
              playFreqCalls, armed, callbackTimes, thrown, starts, edits >>

freqVars == << noteA, noteB, freqA, freqB >>

synthVars == << envIn, envOut, waveIn, waveOut >>

vars == << seqVars, run2, freqVars, synthVars >>

\* --------------------------------------------------------------- sequencer
\* the tempo applied upside down: 1000 * (bpm / 60) * note.length
DelayMs_BpmInverted(note, b) ==
  IF note.length.nan THEN NaN
  ELSE Rat(Quot(1000 * b * note.length.num, 60 * note.length.den), 1)

\* the note length left out: 1000 * (60 / bpm)
DelayMs_WholeNote(note, b) ==
  IF note.length.nan THEN NaN
  ELSE Rat(Quot(1000 * 60, b), 1)

\* 1000 * (60 / bpm) * note.length, in milliseconds (bpm # 0)
DelayMs(note, b) ==
  IF note.length.nan THEN NaN
  ELSE Rat(Quot(1000 * 60 * note.length.num, b * note.length.den), 1)

\* the delay argument left out: setTimeout(callback)
EffectiveDelay_NoDelay(ms) == 0

\* setTimeout(callback, ms): the host clamps NaN and negative delays to 0
EffectiveDelay(ms) == IF ms.nan \/ ms.num < 0 THEN 0 ELSE ms.num

\* _playFreq(freq, time): createBuffer is asked for sampleRate*time frames.
\* With no frames to give, the host either raises or hands back an empty
\* buffer (hostThrows); with frames, waveformFunc runs once per sample and
\* its exception, if any, propagates.  source.start is reached only when
\* nothing was raised.
PlayFreq(freq, ms, hostThrows) ==
  LET threw == IF IsPositive(ms) THEN waveformFunc = "throws" ELSE hostThrows
  IN [freq |-> freq, ms |-> ms, bufferRequested |-> TRUE,
      error |-> IF ~threw THEN "none"
                ELSE IF IsPositive(ms) THEN "WaveformError" ELSE "HostError",
      threw |-> threw, started |-> ~threw]

\* the instanceof test left out: every entry with a length is rendered
Renders_AnyEntry(note) == note.kind \in {"Note", "Rest"}

\* note instanceof Note
Renders(note) == note.kind = "Note"

\* setTimeout moved into the Note branch: a Rest arms nothing
PlayNote_RestNoTimer(note, b, hostThrows) ==
  LET seconds == IF note.kind \in {"Note", "Rest"} THEN DelayMs(note, b) ELSE NaN
      render  == IF Renders(note)
                 THEN << PlayFreq(getFreq(note).val, seconds, hostThrows) >>
                 ELSE << >>
      threw   == render # << >> /\ render[1].threw
  IN [render |-> render, threw |-> threw,
      arms |-> IF threw \/ note.kind = "Rest" THEN << >> ELSE << seconds >>]

\* setTimeout called in the Note branch and again at the end
PlayNote_DoubleArm(note, b, hostThrows) ==
  LET seconds == IF note.kind \in {"Note", "Rest"} THEN DelayMs(note, b) ELSE NaN
      render  == IF Renders(note)
                 THEN << PlayFreq(getFreq(note).val, seconds, hostThrows) >>
                 ELSE << >>
      threw   == render # << >> /\ render[1].threw
  IN [render |-> render, threw |-> threw,
      arms |-> IF threw THEN << >>
               ELSE IF note.kind = "Note" THEN << seconds, seconds >>
               ELSE << seconds >>]

\* seconds initialised to the whole note: let seconds = secondsPerWholeNote
PlayNote_DefaultWholeNote(note, b, hostThrows) ==
  LET seconds == IF note.kind \in {"Note", "Rest"} THEN DelayMs(note, b)
                 ELSE Rat(Quot(1000 * 60, b), 1)
      render  == IF Renders(note)
                 THEN << PlayFreq(getFreq(note).val, seconds, hostThrows) >>
                 ELSE << >>
      threw   == render # << >> /\ render[1].threw
  IN [render |-> render, threw |-> threw,
      arms |-> IF threw THEN << >> ELSE << seconds >>]

\* playNote(note, bpm, callback): what it submits and what it arms
PlayNote(note, b, hostThrows) ==
  LET seconds == IF note.kind \in {"Note", "Rest"} THEN DelayMs(note, b) ELSE NaN
      render  == IF Renders(note)
                 THEN << PlayFreq(getFreq(note).val, seconds, hostThrows) >>
                 ELSE << >>
      threw   == render # << >> /\ render[1].threw
  IN [render |-> render, threw |-> threw,
      arms |-> IF threw THEN << >> ELSE << seconds >>]

\* i += 2
PostIncrement_Skip(k) == k + 2

\* i++
PostIncrement(k) == k + 1

\* i < notes.length - 1
HasNext_OffByOne(k, list) == k < Len(list) - 1

\* i < notes.length
HasNext(k, list) == k < Len(list)

Range(f) == { f[k] : k \in DOMAIN f }

\* notes.shift() in place of notes[i]: the element read is removed
AfterRead_Shift(list) == Tail(list)

\* notes[i]: reading an element leaves the list as it is
AfterRead(list) == list

\* the timers that playNote arms with the delays in arms, numbered after
\* the n timers armed before
NewTimers(arms, n, idx, now) ==
  { [id |-> n + k, idx |-> idx, due |-> now + EffectiveDelay(arms[k])] :
      k \in DOMAIN arms }

ArmedEntries(arms, idx) == [k \in DOMAIN arms |-> [idx |-> idx, ms |-> arms[k]]]

\* nextNote(), called from ctx ("call": playNotes itself, "timer": a timer)
\* with the timers left pending and the timers fired so far
NextNote(ctx, pending, now, firedNow) ==
  IF HasNext(i, notes)
  THEN \E hostThrows \in BOOLEAN :
         LET r == PlayNote(notes[i + 1], bpm, hostThrows)
         IN /\ i' = PostIncrement(i)
            /\ notes' = AfterRead(notes)
            /\ starts' = Append(starts, [idx |-> i, at |-> now, note |-> notes[i + 1]])
            /\ playFreqCalls' =
                 IF r.render = << >> THEN playFreqCalls
                 ELSE Append(playFreqCalls,
                             [idx |-> i, ctx |-> ctx, fired |-> Range(firedNow),
                              call |-> r.render[1]])
            /\ pc' = IF r.threw THEN "aborted" ELSE "waiting"
            /\ thrown' = IF r.threw THEN "render error" ELSE thrown
            /\ timers' = pending \cup NewTimers(r.arms, Len(armed), i, now)
            /\ armed' = armed \o ArmedEntries(r.arms, i)
            /\ callbackTimes' = callbackTimes
  ELSE /\ callbackTimes' = Append(callbackTimes, now)
       /\ pc' = "done"
       /\ timers' = pending
       /\ UNCHANGED << notes, i, playFreqCalls, armed, thrown, starts >>

\* playNotes(notes, bpm, callback): i = 0, then nextNote() synchronously
PlayNotes ==
  /\ pc = "idle"
  /\ NextNote("call", timers, clock, fired)
  /\ UNCHANGED << bpm, waveformFunc, clock, fired, edits, run2, freqVars,
                  synthVars >>

\* the host fires the earliest pending timer, whose callback is nextNote
TimerFire ==
  \E t \in timers :
    /\ \A u \in timers \cup run2.timers : t.due <= u.due
    /\ clock' = t.due
    /\ fired' = Append(fired, t.idx)
    /\ NextNote("timer", timers \ {t}, t.due, Append(fired, t.idx))
    /\ UNCHANGED << bpm, waveformFunc, edits, run2, freqVars, synthVars >>

\* the values of the variables a specification does not use
NoRun ==
  [pc |-> "absent", notes |-> << >>, bpm |-> 120, i |-> 0, timers |-> {},
   startAt |-> 0, starts |-> << >>, playFreqCalls |-> << >>,
   armed |-> << >>, fired |-> << >>, callbackTimes |-> << >>,
   thrown |-> "none"]

NoEnvIn == [x1 |-> Rat(0, 1), x2 |-> Rat(0, 1),
            attackPoint |-> Rat(1, 10), decayPoint |-> Rat(1, 2)]

NoWaveIn == [overtones |-> << 1 >>, waveFunc |-> "SINE",
             t |-> Rat(0, 1), freq |-> Rat(0, 1), tmax |-> Rat(1, 1)]

NoSample == [outcome |-> "none", val |-> NaN]

SeqInit ==
  /\ notes = << >>
  /\ bpm = 120
  /\ waveformFunc = "pure"
  /\ i = 0
  /\ pc = "idle"
  /\ timers = {}
  /\ clock = 0
  /\ fired = << >>
  /\ playFreqCalls = << >>
  /\ armed = << >>
  /\ callbackTimes = << >>
  /\ thrown = "none"
  /\ starts = << >>
  /\ edits = << >>

FreqInit ==
  /\ noteA = Note("A", 4, 1, 4)
  /\ noteB = Note("A", 4, 1, 4)
  /\ freqA = NoResult
  /\ freqB = NoResult

SynthInit ==
  /\ envIn = NoEnvIn
  /\ envOut = << >>
  /\ waveIn = NoWaveIn
  /\ waveOut = NoSample

Init ==
  /\ notes \in NoteLists
  /\ bpm \in BPMs
  /\ waveformFunc \in {"pure", "throws"}
  /\ i = 0
  /\ pc = "idle"
  /\ timers = {}
  /\ clock = 0
  /\ fired = << >>
  /\ playFreqCalls = << >>
  /\ armed = << >>
  /\ callbackTimes = << >>
  /\ thrown = "none"
  /\ starts = << >>
  /\ edits = << >>
  /\ run2 = NoRun
  /\ FreqInit
  /\ SynthInit

Next == PlayNotes \/ TimerFire

Spec == Init /\ [][Next]_vars

\* one run in which every armed timer eventually fires
EntriesFair == { Note("A", 4, 1, 4), Note("A", 4, 0, 1), Rest(1, 2) }

InitFair ==
  /\ notes \in UNION { [1..n -> EntriesFair] : n \in 0..MaxLen }
  /\ bpm = 120
  /\ waveformFunc \in {"pure", "throws"}
  /\ i = 0
  /\ pc = "idle"
  /\ timers = {}
  /\ clock = 0
  /\ fired = << >>
  /\ playFreqCalls = << >>
  /\ armed = << >>
  /\ callbackTimes = << >>
  /\ thrown = "none"
  /\ starts = << >>
  /\ edits = << >>
  /\ run2 = NoRun
  /\ FreqInit
  /\ SynthInit

SpecFair == InitFair /\ [][Next]_vars /\ WF_vars(TimerFire)

\* ------------------------------------------------- two runs on one host
MaxLen2 == 2

run1Vars == << notes, bpm, waveformFunc, i, pc, timers, fired,
               playFreqCalls, armed, callbackTimes, thrown, starts, edits >>

\* nextNote() of the second run, on its own closure variables (the fields
\* of r): the same code as NextNote
NextNote2(r, ctx, pending, now, firedNow, hostThrows) ==
  IF HasNext(r.i, r.notes)
  THEN LET p == PlayNote(r.notes[r.i + 1], r.bpm, hostThrows)
       IN [r EXCEPT
             !.i = PostIncrement(r.i),
             !.notes = AfterRead(r.notes),
             !.starts = Append(r.starts, [idx |-> r.i, at |-> now,
                                          note |-> r.notes[r.i + 1]]),
             !.playFreqCalls =
                IF p.render = << >> THEN r.playFreqCalls
                ELSE Append(r.playFreqCalls,
                            [idx |-> r.i, ctx |-> ctx, fired |-> Range(firedNow),
                             call |-> p.render[1]]),
             !.pc = IF p.threw THEN "aborted" ELSE "waiting",
             !.thrown = IF p.threw THEN "render error" ELSE r.thrown,
             !.timers = pending \cup NewTimers(p.arms, Len(r.armed), r.i, now),
             !.armed = r.armed \o ArmedEntries(p.arms, r.i),
             !.fired = firedNow]
  ELSE [r EXCEPT !.callbackTimes = Append(r.callbackTimes, now),
                 !.pc = "done",
                 !.timers = pending,
                 !.fired = firedNow]

\* the second call of playNotes, at any moment between two timers
PlayNotes2 ==
  /\ run2.pc = "idle"
  /\ \E hostThrows \in BOOLEAN :
       run2' = NextNote2([run2 EXCEPT !.startAt = clock], "call",
                         run2.timers, clock, run2.fired, hostThrows)
  /\ UNCHANGED << run1Vars, clock, freqVars, synthVars >>

\* the host fires the earliest pending timer, one of the second run
TimerFire2 ==
  \E t \in run2.timers :
    /\ \A u \in timers \cup run2.timers : t.due <= u.due
    /\ clock' = t.due
    /\ \E hostThrows \in BOOLEAN :
         run2' = NextNote2(run2, "timer", run2.timers \ {t}, t.due,
                           Append(run2.fired, t.idx), hostThrows)
    /\ UNCHANGED << run1Vars, freqVars, synthVars >>

Entries2 == { Note("A", 4, 1, 4), Rest(1, 2), Note("A", 4, 0, 1) }
NoteLists2 == UNION { [1..n -> Entries2] : n \in 0..MaxLen2 }

InitTwo ==
  /\ notes \in NoteLists2
  /\ bpm \in BPMs2
  /\ waveformFunc \in {"pure", "throws"}
  /\ i = 0
  /\ pc = "idle"
  /\ timers = {}
  /\ clock = 0
  /\ fired = << >>
  /\ playFreqCalls = << >>
  /\ armed = << >>
  /\ callbackTimes = << >>
  /\ thrown = "none"
  /\ starts = << >>
  /\ edits = << >>
  /\ \E list \in NoteLists2, b \in BPMs2 :
       run2 = [NoRun EXCEPT !.pc = "idle", !.notes = list, !.bpm = b]
  /\ FreqInit
  /\ SynthInit

NextTwo == PlayNotes \/ TimerFire \/ PlayNotes2 \/ TimerFire2

SpecTwo == InitTwo /\ [][NextTwo]_vars

\* ------------------------------------------------------- pitch table spec
GetFreqA ==
  /\ freqA.outcome = "none"
  /\ freqA' = getFreq(noteA)
  /\ UNCHANGED << noteA, noteB, freqB >>
  /\ UNCHANGED << seqVars, run2, synthVars >>

GetFreqB ==
  /\ freqB.outcome = "none"
  /\ freqB' = getFreq(noteB)
  /\ UNCHANGED << noteA, noteB, freqA >>
  /\ UNCHANGED << seqVars, run2, synthVars >>

InitFreq ==
  /\ SeqInit
  /\ run2 = NoRun
  /\ SynthInit
  /\ noteA \in PitchNotes
  /\ noteB \in PitchNotes
  /\ freqA = NoResult
  /\ freqB = NoResult

NextFreq == GetFreqA \/ GetFreqB

SpecFreq == InitFreq /\ [][NextFreq]_vars

\* ---------------------------------------------------------------- envelope
EnvSteps == 10

\* the decay branch without its "- decayPoint": slope*x + 1.0
attackAndDecay_NoShift(x, attackPoint, decayPoint) ==
  IF Less(x, attackPoint) THEN Mul(Div(One, attackPoint), x)
  ELSE IF Less(x, decayPoint) THEN One
  ELSE LET slope == Div(Rat(-1, 1), Sub(One, decayPoint))
       IN Add(Mul(slope, x), One)

\* attackAndDecay(x, attackPoint, decayPoint), for decayPoint # 1
attackAndDecay(x, attackPoint, decayPoint) ==
  IF Less(x, attackPoint) THEN Mul(Div(One, attackPoint), x)
  ELSE IF Less(x, decayPoint) THEN One
  ELSE LET slope == Div(Rat(-1, 1), Sub(One, decayPoint))
       IN Add(Mul(slope, Sub(x, decayPoint)), One)

\* the progress values and the breakpoints the envelope is evaluated at
EnvGrid == { Rat(k, EnvSteps) : k \in 0..EnvSteps }
EnvBreakpoints == { Rat(k, EnvSteps) : k \in 1..(EnvSteps - 1) }
EnvInputs ==
  [x1 : EnvGrid, x2 : EnvGrid,
   attackPoint : EnvBreakpoints, decayPoint : EnvBreakpoints]

\* two evaluations of the envelope with the same breakpoints
EvalEnvelope ==
  /\ envOut = << >>
  /\ envOut' = << attackAndDecay(envIn.x1, envIn.attackPoint, envIn.decayPoint),
                  attackAndDecay(envIn.x2, envIn.attackPoint, envIn.decayPoint) >>
  /\ UNCHANGED << envIn, waveIn, waveOut, seqVars, run2, freqVars >>

InitEnv ==
  /\ SeqInit
  /\ run2 = NoRun
  /\ FreqInit
  /\ envIn \in EnvInputs
  /\ envOut = << >>
  /\ waveIn = NoWaveIn
  /\ waveOut = NoSample

NextEnv == EvalEnvelope

SpecEnv == InitEnv /\ [][NextEnv]_vars

\* -------------------------------------------------------------- Instrument
MaxOvertones == 3

\* x % 1 for x >= 0
Mod1(x) == Rat(x.num % x.den, x.den)

\* Instrument.WAVES; SINE is given at the quarter points of the cycle
SQUARE(x) == IF Less(Mod1(x), Rat(1, 2)) THEN One ELSE Rat(-1, 1)
TRIANGLE(x) == Sub(Mul(Rat(2, 1), Mod1(x)), One)
SINE(x) ==
  LET q == Mod1(x)
  IN IF q = Rat(1, 4) THEN One ELSE IF q = Rat(3, 4) THEN Rat(-1, 1) ELSE Zero

IsQuarter(x) == Mod1(x) \in { Zero, Rat(1, 4), Rat(1, 2), Rat(3, 4) }

WaveValue(waveFunc, x) ==
  IF waveFunc = "SQUARE" THEN SQUARE(x)
  ELSE IF waveFunc = "TRIANGLE" THEN TRIANGLE(x)
  ELSE SINE(x)

\* overtones.reduce((a, b) => a+b), for a non-empty array
RECURSIVE Reduce(_)
Reduce(overtones) ==
  IF Len(overtones) = 1 THEN overtones[1]
  ELSE Add(Reduce(SubSeq(overtones, 1, Len(overtones) - 1)),
           overtones[Len(overtones)])

\* the division by overtoneSum left out
Normalize_None(sample, overtoneSum) == sample

\* sample / overtoneSum
Normalize(sample, overtoneSum) == Div(sample, overtoneSum)

\* the loop of the waveform function over the first n overtones
RECURSIVE Accumulate(_, _, _, _, _, _)
Accumulate(overtones, waveFunc, t, freq, tmax, n) ==
  IF n = 0 THEN Zero
  ELSE LET overtoneFreq == Mul(freq, Rat(n, 1))
           wave == WaveValue(waveFunc, Mul(overtoneFreq, t))
           amplitude == Mul(overtones[n],
                            attackAndDecay(Div(t, tmax), Rat(1, 10), Rat(1, 2)))
       IN Add(Accumulate(overtones, waveFunc, t, freq, tmax, n - 1),
              Mul(amplitude, wave))

\* new Instrument(overtones, waveFunc).waveformFunc(t, freq, tmax): without
\* a waveFunc the constructor reads the undeclared name SimpleInstrument,
\* and reduce of an empty array raises
InstrumentSample(in) ==
  IF in.waveFunc = "undefined" THEN [outcome |-> "ReferenceError", val |-> NaN]
  ELSE IF in.overtones = << >> THEN [outcome |-> "TypeError", val |-> NaN]
  ELSE [outcome |-> "value",
        val |-> Normalize(Accumulate(in.overtones, in.waveFunc, in.t, in.freq,
                                     in.tmax, Len(in.overtones)),
                          Reduce(in.overtones))]

\* the overtone weights, times, frequencies and note lengths tried; the
\* weights never sum to 0, and SINE is asked only for quarter points
Weights == { Rat(-1, 1), Zero, One, Rat(1, 4), Rat(2, 1) }
WeightLists ==
  { w \in UNION { [1..n -> Weights] : n \in 0..MaxOvertones } :
      w = << >> \/ Reduce(w) # Zero }
SampleTimes == { Zero, Rat(1, 20), Rat(1, 4), Rat(1, 2), Rat(3, 4) }
SampleFreqs == { Zero, One, Rat(2, 1), Rat(5, 1) }
NoteSeconds == { One, Rat(2, 1) }
WaveInputs ==
  { in \in [overtones : WeightLists,
            waveFunc : {"SQUARE", "TRIANGLE", "SINE", "undefined"},
            t : SampleTimes, freq : SampleFreqs, tmax : NoteSeconds] :
      in.waveFunc = "SINE" => IsQuarter(Mul(in.freq, in.t)) }

\* one call of the instrument's waveform function
EvalSample ==
  /\ waveOut.outcome = "none"
  /\ waveOut' = InstrumentSample(waveIn)
  /\ UNCHANGED << waveIn, envIn, envOut, seqVars, run2, freqVars >>

InitWave ==
  /\ SeqInit
  /\ run2 = NoRun
  /\ FreqInit
  /\ envIn = NoEnvIn
  /\ envOut = << >>
  /\ waveIn \in WaveInputs
  /\ waveOut = NoSample

NextWave == EvalSample

SpecWave == InitWave /\ [][NextWave]_vars

\* ------------------------------------- the caller edits the list in a run
MaxLenEdit == 2
MaxEdits == 2

EntriesEdit == { Note("A", 4, 1, 4), Note("A", 4, 1, 2), Rest(1, 4) }
NoteListsEdit == UNION { [1..n -> EntriesEdit] : n \in 0..MaxLenEdit }

\* the caller runs between two timers: notes.push(e) on the array that the
\* nextNote closure holds
CallerPush ==
  /\ pc = "waiting"
  /\ Len(edits) < MaxEdits
  /\ \E e \in EntriesEdit :
       /\ notes' = Append(notes, e)
       /\ edits' = Append(edits, [op |-> "push", at |-> Len(notes),
                                  items |-> << e >>, played |-> Len(starts)])
  /\ UNCHANGED << bpm, waveformFunc, i, pc, timers, clock, fired,
                  playFreqCalls, armed, callbackTimes, thrown, starts,
                  run2, freqVars, synthVars >>

\* the caller runs between two timers: notes.length = n for an n at or past
\* the closure's index, which removes entries not handed to playNote yet
CallerTruncate ==
  /\ pc = "waiting"
  /\ Len(edits) < MaxEdits
  /\ \E n \in i..(Len(notes) - 1) :
       /\ notes' = SubSeq(notes, 1, n)
       /\ edits' = Append(edits, [op |-> "truncate", at |-> n,
                                  items |-> SubSeq(notes, n + 1, Len(notes)),
                                  played |-> Len(starts)])
  /\ UNCHANGED << bpm, waveformFunc, i, pc, timers, clock, fired,
                  playFreqCalls, armed, callbackTimes, thrown, starts,
                  run2, freqVars, synthVars >>

InitEdit ==
  /\ notes \in NoteListsEdit
  /\ bpm = 120
  /\ waveformFunc \in {"pure", "throws"}
  /\ i = 0
  /\ pc = "idle"
  /\ timers = {}
  /\ clock = 0
  /\ fired = << >>
  /\ playFreqCalls = << >>
  /\ armed = << >>
  /\ callbackTimes = << >>
  /\ thrown = "none"
  /\ starts = << >>
  /\ edits = << >>
  /\ run2 = NoRun
  /\ FreqInit
  /\ SynthInit

NextEdit == PlayNotes \/ TimerFire \/ CallerPush \/ CallerTruncate

SpecEdit == InitEdit /\ [][NextEdit]_vars

\* ================================================================== claims
RECURSIVE SumArmed(_)
SumArmed(log) ==
  IF log = << >> THEN 0 ELSE log[1].ms.num + SumArmed(Tail(log))

\* 60/bpm x durationFraction of one entry, in ms, for bpm > 0
ExpectedMs(e, b) ==
  IF e.length.num >= 0
  THEN (60000 * e.length.num) \div (b * e.length.den)
  ELSE -((60000 * (-e.length.num)) \div (b * e.length.den))

RECURSIVE SumExpected(_, _)
SumExpected(list, b) ==
  IF list = << >> THEN 0
  ELSE ExpectedMs(list[1], b) + SumExpected(Tail(list), b)

\* the number of Note entries among the first n entries of list
NoteCount(list, n) == Cardinality({ k \in 1..n : list[k].kind = "Note" })

OnlyNotesAndRests == \A k \in DOMAIN notes : notes[k].kind \in {"Note", "Rest"}

RunOver == pc \in {"done", "aborted"}

\* C1: one call of playNotes invokes the completion callback exactly once
\* over the whole run: never twice, and never zero times once the run is
\* over (nothing running, no timer pending).
C1_CallbackExactlyOnce ==
  /\ Len(callbackTimes) <= 1
  /\ RunOver => Len(callbackTimes) = 1

\* C2: entry 0 is submitted to _playFreq by the initial call and every
\* later entry k inside a timer callback, after the timer armed for entry
\* k-1 has fired.
C2_SubmissionAfterPreviousTimer ==
  \A n \in DOMAIN playFreqCalls :
    LET rec == playFreqCalls[n]
    IN IF rec.idx = 0
       THEN rec.ctx = "call" /\ rec.fired = {}
       ELSE rec.ctx = "timer" /\ (rec.idx - 1) \in rec.fired

C2_Witness ==
  \E n \in DOMAIN playFreqCalls :
    playFreqCalls[n].idx >= 2 /\ playFreqCalls[n].call.started

\* C3: the completion callback is invoked only when every entry has been
\* started, the timer of the final entry has fired and no timer is pending.
C3_CallbackAfterLastTimer ==
  callbackTimes # << >> =>
    /\ timers = {}
    /\ i = Len(notes)
    /\ Len(notes) > 0 =>
         /\ (Len(notes) - 1) \in Range(fired)
         /\ \A k \in 0..(Len(notes) - 1) : \E a \in Range(armed) : a.idx = k

C3_Witness == callbackTimes # << >> /\ Len(notes) >= 2

\* C4: a Rest arms the same 60/bpm x length timer as a Note would and is
\* never handed to _playFreq; the calls of _playFreq are exactly the Note
\* entries handed to playNote so far (all Notes of the list at the end).
C4_RestTimedNotRendered ==
  /\ \A n \in DOMAIN playFreqCalls :
       notes[playFreqCalls[n].idx + 1].kind = "Note"
  /\ i <= Len(notes) => Len(playFreqCalls) = NoteCount(notes, i)
  /\ pc = "done" => Len(playFreqCalls) = NoteCount(notes, Len(notes))
  /\ \A k \in 1..Len(notes) :
       (k <= i /\ notes[k].kind = "Rest") =>
         \E n \in DOMAIN armed :
           /\ armed[n].idx = k - 1
           /\ armed[n].ms = DelayMs(notes[k], bpm)
           /\ bpm > 0 => armed[n].ms.num = ExpectedMs(notes[k], bpm)

C4_Witness ==
  /\ pc = "done"
  /\ \E k \in DOMAIN notes : notes[k].kind = "Rest"
  /\ \E k \in DOMAIN notes : notes[k].kind = "Note"

\* C5: at the completion callback of a Note/Rest list played at bpm > 0 the
\* delays armed sum to the sum of 60/bpm x durationFraction over the
\* entries, and (no delay being negative) that much time has elapsed.
C5_TotalDelay ==
  (pc = "done" /\ bpm > 0 /\ OnlyNotesAndRests) =>
    /\ SumArmed(armed) = SumExpected(notes, bpm)
    /\ (\A k \in DOMAIN notes : notes[k].length.num >= 0) =>
         callbackTimes = << SumExpected(notes, bpm) >>

C5_Witness ==
  /\ pc = "done" /\ bpm > 0 /\ OnlyNotesAndRests
  /\ Len(notes) = MaxLen
  /\ \E j, k \in DOMAIN notes : notes[j].length # notes[k].length

\* C6: a synthesis error raised while rendering an entry does not escape
\* playNote/playNotes and does not halt the chain: the timer of that entry
\* is still armed.
C6_ErrorDoesNotHaltChain ==
  \A n \in DOMAIN playFreqCalls :
    playFreqCalls[n].call.threw =>
      /\ thrown = "none"
      /\ pc # "aborted"
      /\ \E a \in Range(armed) : a.idx = playFreqCalls[n].idx

\* C7: the frequency lookup of a pitch name that is not in the table ends
\* in an UnknownPitchName error, not in a value, at every octave.
C7_UnknownPitchNameFails ==
  (freqA.outcome # "none" /\ noteA.name \notin DOMAIN noteFreqs) =>
    freqA.outcome = "UnknownPitchName"

\* C8: a render whose duration is <= 0 ends in an InvalidDuration error and
\* asks the audio collaborator for no buffer.
C8_NonPositiveDurationRejected ==
  \A n \in DOMAIN playFreqCalls :
    ~IsPositive(playFreqCalls[n].call.ms) =>
      /\ playFreqCalls[n].call.error = "InvalidDuration"
      /\ ~playFreqCalls[n].call.bufferRequested

\* C9 as stated: [Note("A",4,1/4), Rest(1/4), Note("A",4,1/4)] at bpm 120
\* arms 750 ms of delays in all, makes exactly two render submissions (none
\* for the Rest) and invokes the completion callback once, at 750 ms.
C9_List == << Note("A", 4, 1, 4), Rest(1, 4), Note("A", 4, 1, 4) >>

C9_Renders ==
  /\ Len(playFreqCalls) = 2
  /\ \A n \in DOMAIN playFreqCalls :
       playFreqCalls[n].idx # 1 /\ playFreqCalls[n].call.started

C9_Original ==
  (notes = C9_List /\ bpm = 120 /\ pc = "done") =>
    /\ SumArmed(armed) = 750
    /\ C9_Renders
    /\ callbackTimes = << 750 >>

\* C9 (amended): the same list at bpm 120 arms 3 x 125 = 375 ms of delays
\* in all (60/120 s per whole note, a quarter of it per entry), makes
\* exactly two render submissions (none for the Rest) and invokes the
\* completion callback once, at 375 ms; with a waveform function that
\* raises nothing the run is never cut short.
C9_Scenario ==
  (notes = C9_List /\ bpm = 120) =>
    /\ pc = "done" =>
         /\ SumArmed(armed) = 375
         /\ C9_Renders
         /\ callbackTimes = << 375 >>
    /\ waveformFunc = "pure" => pc # "aborted"
    /\ Len(callbackTimes) <= 1

C9_Witness == notes = C9_List /\ bpm = 120 /\ pc = "done"

\* C10: for every enharmonic pair of names and every octave getFreq gives
\* the same frequency for both names.
Enharmonic ==
  { << "C#", "Db" >>, << "D#", "Eb" >>, << "F#", "Gb" >>,
    << "G#", "Ab" >>, << "A#", "Bb" >> }

C10_Queried ==
  /\ << noteA.name, noteB.name >> \in Enharmonic
  /\ noteA.octave = noteB.octave
  /\ freqA.outcome # "none"
  /\ freqB.outcome # "none"

C10_EnharmonicEqual ==
  C10_Queried =>
    /\ freqA.outcome = "value"
    /\ freqB.outcome = "value"
    /\ NumEq(freqA.val, freqB.val)

C10_Witness == C10_Queried /\ noteA.name = "C#" /\ noteA.octave = 4

\* C11: for every recognized name and octave o in the range, getFreq at
\* octave o+1 is exactly twice getFreq at octave o, getFreq at octave 8 is
\* the table value, and every frequency returned is strictly positive.
C11_Recognized == noteA.name \in DOMAIN noteFreqs /\ freqA.outcome # "none"

C11_NextOctave ==
  /\ C11_Recognized
  /\ freqB.outcome # "none"
  /\ noteB.name = noteA.name
  /\ noteB.octave = noteA.octave + 1

C11_OctaveDoubling ==
  /\ C11_Recognized =>
       /\ freqA.outcome = "value"
       /\ IsPositive(freqA.val)
       /\ noteA.octave = 8 => NumEq(freqA.val, Rat(noteFreqs[noteA.name], 100))
  /\ C11_NextOctave =>
       /\ freqB.outcome = "value"
       /\ NumEq(freqB.val, Mul(Rat(2, 1), freqA.val))

C11_Witness == C11_NextOctave /\ noteA.name = "F#" /\ noteA.octave = 3

\* C13: for breakpoints 0 < attackPoint <= decayPoint < 1 the envelope is 0
\* at progress 0, 1 at attackPoint and at decayPoint, 0 at progress 1,
\* non-decreasing on [0, attackPoint], non-increasing on [decayPoint, 1] and
\* within [0, 1] for every progress in [0, 1].
C13_Evaluated ==
  /\ envOut # << >>
  /\ Leq(envIn.attackPoint, envIn.decayPoint)

C12_Sampled ==
  /\ waveOut.outcome = "value"
  /\ Less(Zero, Reduce(waveIn.overtones))
  /\ Leq(Zero, waveIn.freq)
  /\ Less(Zero, waveIn.tmax)

C12_InRange == Leq(Rat(-1, 1), waveOut.val) /\ Leq(waveOut.val, One)

C12_Original == C12_Sampled => C12_InRange

\* C12 (amended): the same for weight sequences with a positive sum and no
\* negative weight.
C12_NoNegativeWeight ==
  \A k \in DOMAIN waveIn.overtones : Leq(Zero, waveIn.overtones[k])

C12_Bounded == (C12_Sampled /\ C12_NoNegativeWeight) => C12_InRange

C12_Witness ==
  /\ C12_Sampled
  /\ C12_NoNegativeWeight
  /\ Len(waveIn.overtones) >= 2
  /\ \E k \in DOMAIN waveIn.overtones : waveIn.overtones[k] = Rat(1, 4)
  /\ waveOut.val \notin { Zero, One, Rat(-1, 1) }

\* C14: for a fixed list of Notes and Rests of positive length and a bpm
\* > 0, two runs produce the same sequence of (entry index, start offset)
\* pairs, and within a run the entry indices and the start offsets are
\* strictly increasing.
Offsets(log) ==
  [k \in DOMAIN log |-> [idx |-> log[k].idx, offset |-> log[k].at - log[1].at]]

StrictlyIncreasing(log) ==
  \A j, k \in DOMAIN log :
    j < k => (log[j].idx < log[k].idx /\ log[j].at < log[k].at)

ValidList(list, b) ==
  /\ b > 0
  /\ \A k \in DOMAIN list :
       list[k].kind \in {"Note", "Rest"} /\ IsPositive(list[k].length)

C14_SameInputs ==
  /\ run2.pc # "absent"
  /\ run2.notes = notes
  /\ run2.bpm = bpm
  /\ ValidList(notes, bpm)

InOrder(log, idx) ==
  /\ Len(log) = idx
  /\ \A k \in DOMAIN log : log[k].idx = k - 1

OwnSubmissions(calls, list, idx) ==
  /\ Len(calls) = NoteCount(list, idx)
  /\ \A n \in DOMAIN calls :
       /\ list[calls[n].idx + 1].kind = "Note"
       /\ calls[n].call.freq = getFreq(list[calls[n].idx + 1]).val

ExactlyOnce(times, p) ==
  /\ Len(times) <= 1
  /\ p \in {"done", "aborted"} => Len(times) = 1

C15_BothStarted == pc # "idle" /\ run2.pc \notin {"absent", "idle"}

C15_Concurrent ==
  C15_BothStarted =>
    /\ InOrder(starts, i) /\ InOrder(run2.starts, run2.i)
    /\ OwnSubmissions(playFreqCalls, notes, i)
    /\ OwnSubmissions(run2.playFreqCalls, run2.notes, run2.i)
    /\ ExactlyOnce(callbackTimes, pc)
    /\ ExactlyOnce(run2.callbackTimes, run2.pc)

\* C16: a run started on a list of Notes and Rests of positive length, at
\* bpm > 0 and with a waveform function that raises nothing, is never stuck
\* (not done and no timer pending) and, every armed timer firing in the
\* end, reaches Done with the completion callback invoked.
C16_Started ==
  /\ pc # "idle"
  /\ ValidList(notes, bpm)
  /\ waveformFunc = "pure"

C16_RunsToCompletion ==
  /\ [](C16_Started => (pc = "done" \/ (pc = "waiting" /\ timers # {})))
  /\ (C16_Started ~> (pc = "done" /\ Len(callbackTimes) = 1))

C16_Witness == C16_Started /\ pc = "done" /\ Len(notes) = MaxLen

\* C17: at most one timer is pending and at most one entry is current in
\* every state of a run, and a timer is armed only by the initial call or
\* by the step in which the previous timer fires.
C17_Arms == timers' \ timers # {}

C17_OneTimer ==
  /\ [](Cardinality(timers) <= 1 /\ Cardinality({ t.idx : t \in timers }) <= 1)
  /\ [][C17_Arms =>
          /\ Cardinality(timers' \ timers) = 1
          /\ \/ (pc = "idle" /\ timers = {})
             \/ (\E t \in timers : timers' \ timers = timers' /\
                                    fired' = Append(fired, t.idx))]_vars

C17_Witness == Cardinality(timers) = 1 /\ Len(fired) >= 2

\* C18 as stated: 0 <= i <= notes.length always, each timer firing advances
\* i by exactly one, the entries handed to playNote are each handed once in
\* list order, and Done is entered exactly by the call of nextNote that
\* finds i = notes.length.
C18_Frame ==
  /\ i' >= 0 /\ i' <= Len(notes')
  /\ InOrder(starts', i')
  /\ pc' = "done" => Len(starts') = Len(notes')
  /\ (pc' = "done" /\ pc # "done") <=>
       (i = Len(notes) /\ (fired' # fired \/ pc = "idle"))

C18_Original ==
  [][C18_Frame /\ (fired' # fired => i' = i + 1)]_vars

\* C18 (amended): the same, but a timer firing advances i by exactly one
\* only while i < notes.length; the firing of the last timer finds
\* i = notes.length, leaves i as it is and enters Done.
C18_Index ==
  [][C18_Frame /\
     (fired' # fired =>
        IF i < Len(notes) THEN i' = i + 1 ELSE (i' = i /\ pc' = "done"))]_vars

C18_Witness == pc = "done" /\ Len(notes) = MaxLen /\ i = Len(notes)

\* C19: no step of a run changes the instrument (its waveformFunc and the
\* overtone weights it was built from), the entry list or any Note/Rest in
\* it, also when two runs overlap on one instrument.
C19_ReadOnly ==
  [][/\ notes' = notes
     /\ run2.notes' = run2.notes
     /\ waveformFunc' = waveformFunc
     /\ waveIn' = waveIn
     /\ bpm' = bpm /\ run2.bpm' = run2.bpm]_vars

C19_Witness ==
  /\ pc = "done" /\ run2.pc = "done"
  /\ Len(notes) = MaxLen2 /\ Len(run2.notes) = MaxLen2
  /\ notes # run2.notes

\* C20: for an empty list playNotes arms no timer, submits nothing and
\* invokes the completion callback before it returns; for a non-empty list
\* the callback is not invoked before playNotes returns.
C20_SynchronousIffEmpty ==
  /\ [](notes = << >> =>
          (armed = << >> /\ timers = {} /\ playFreqCalls = << >> /\ fired = << >>))
  /\ [][pc = "idle" =>
          IF notes = << >>
          THEN pc' = "done" /\ callbackTimes' = << clock >>
          ELSE callbackTimes' = << >> /\ pc' # "done"]_vars

C20_Witness == notes = << >> /\ pc = "done" /\ callbackTimes = << 0 >>

\* the entries started so far that are neither a Note nor a Rest
C21_Unknown == { n \in DOMAIN starts : notes[starts[n].idx + 1].kind = "Other" }

\* the Notes and Rests of the list, in order
C21_Known == SelectSeq(notes, LAMBDA e : e.kind \in {"Note", "Rest"})

RECURSIVE C21_Scheduled(_)
C21_Scheduled(log) ==
  IF log = << >> THEN 0
  ELSE EffectiveDelay(log[1].ms) + C21_Scheduled(Tail(log))

\* C21: an entry that is neither a Note nor a Rest is never handed to
\* _playFreq and arms exactly one timer, whose delay is NaN and so elapses
\* at once: the next entry starts at the same instant, or, the entry being
\* the last, the completion callback runs at that instant; the entry never
\* halts the run, and the delays scheduled by a finished run are those of
\* its Notes and Rests alone.
C21_UnknownEntry ==
  /\ \A n \in C21_Unknown :
       LET k  == starts[n].idx
           at == starts[n].at
       IN /\ \A c \in DOMAIN playFreqCalls : playFreqCalls[c].idx # k
          /\ Cardinality({ a \in DOMAIN armed : armed[a].idx = k }) = 1
          /\ \A a \in DOMAIN armed :
               armed[a].idx = k =>
                 (armed[a].ms = NaN /\ EffectiveDelay(armed[a].ms) = 0)
          /\ n < Len(starts) => starts[n + 1].at = at
          /\ n = Len(starts) =>
               \/ /\ pc = "waiting"
                  /\ timers # {}
                  /\ \A t \in timers : t.idx = k /\ t.due = at /\ t.due = clock
                  /\ \E t \in timers :
                       \A u \in timers \cup run2.timers : t.due <= u.due
               \/ /\ pc = "done"
                  /\ k = Len(notes) - 1
                  /\ callbackTimes = << at >>
  /\ (pc = "done" /\ bpm > 0 /\
      \A k \in DOMAIN C21_Known : C21_Known[k].length.num >= 0) =>
       /\ C21_Scheduled(armed) = SumExpected(C21_Known, bpm)
       /\ callbackTimes = << SumExpected(C21_Known, bpm) >>

C21_Witness ==
  /\ pc = "done" /\ bpm > 0 /\ clock > 0
  /\ Len(notes) = MaxLen
  /\ notes[1].kind = "Note" /\ notes[2].kind = "Other" /\ notes[MaxLen].kind = "Other"
  /\ callbackTimes = << SumExpected(C21_Known, bpm) >>

\* the push logged as edits[m] put an entry that is still in the list
C22_Kept(m) ==
  /\ edits[m].op = "push"
  /\ ~ \E m2 \in DOMAIN edits :
         m2 > m /\ edits[m2].op = "truncate" /\ edits[m2].at <= edits[m].at

\* C22: the run reads the caller's list afresh at every step.  What has
\* been handed to playNote is always the front of the list as it is now;
\* the completion callback comes only when the whole current list has been
\* handed over, so an entry pushed while a timer was pending (and not
\* removed again) is played before the callback; entries removed past the
\* index had not been played and are not played later: a later start at
\* such a position is of an entry pushed afterwards.
C22_ListReRead ==
  /\ \A n \in DOMAIN starts :
       starts[n].idx = n - 1 /\ n <= Len(notes) /\ starts[n].note = notes[n]
  /\ pc = "done" =>
       /\ Len(starts) = Len(notes)
       /\ Len(callbackTimes) = 1
       /\ \A n \in DOMAIN starts : starts[n].at <= callbackTimes[1]
       /\ \A m \in DOMAIN edits :
            C22_Kept(m) =>
              \E n \in DOMAIN starts :
                /\ n > edits[m].played
                /\ starts[n].idx = edits[m].at
                /\ starts[n].note = edits[m].items[1]
  /\ \A m \in DOMAIN edits :
       edits[m].op = "truncate" =>
         /\ edits[m].played <= edits[m].at
         /\ \A n \in DOMAIN starts :
              starts[n].idx >= edits[m].at =>
                \E m2 \in DOMAIN edits :
                  /\ m2 > m /\ edits[m2].op = "push"
                  /\ edits[m2].at = starts[n].idx
                  /\ edits[m2].played < n

C22_Witness ==
  /\ pc = "done"
  /\ \E m \in DOMAIN edits : C22_Kept(m)
  /\ \E m \in DOMAIN edits : edits[m].op = "truncate" /\ edits[m].items # << >>
  /\ Len(starts) >= 2

====
